---- MODULE Spec2Model ----
(***************************************************************************)
(* RSSReaderApp (src/rss_reader.py): a foreground event loop that rotates  *)
(* through a story list, and background thread workers (load_feeds) that   *)
(* rebuild the story list.  Worker threads and the event loop share        *)
(* `stories` and `current_index` without a lock, so the accesses to them   *)
(* are separate steps wherever another thread's write in between can       *)
(* change what the handler does.                                           *)
(***************************************************************************)
EXTENDS Integers, Sequences, FiniteSets, TLC

\* ------------------------------------------------------------------ bounds
NumSources == 2     \* lines of feeds.txt
MaxItems == 2       \* entries one feed returns
MaxDate == 2        \* distinct publication timestamps
MaxRuns == 2        \* load_feeds workers started in one behaviour
AutoTicks == 2      \* clock ticks in one auto-advance interval (10.0 s)
MaxStories == 3     \* stories in the list the rotation specification starts from
MaxLen == 4         \* characters and tags of one raw_content
MaxInner == 3       \* characters and tags inside the first paragraph of a two-paragraph raw_content
MaxStarts == 3      \* countdowns started in one behaviour (PomodoroApp)
MaxWorkers == 3     \* workers started in one behaviour (NoteApp)

Sources == 1..NumSources
Dates == 1..MaxDate
Runs == 1..MaxRuns

VARIABLES
    app,            \* "init" before on_mount, "running", "crashed" (process exited on an unhandled exception)
    stories,        \* RSSReaderApp.stories
    current_index,  \* RSSReaderApp.current_index
    auto_timer,     \* RSSReaderApp.auto_timer: [armed, elapsed]
    refresh_timer,  \* the 3600 s interval timer of on_mount: armed or not
    display,        \* the #title, #meta and #body widgets
    run,            \* the load_feeds workers, by start order
    fg,             \* the event loop: the handler it is in and that handler's locals
    streak,         \* history: the indexes written by consecutive advances since the last other write to stories/current_index
    last_nav,       \* history: the last manual navigation that reached the timer reset: clock ticks since (age), and whether the countdown was under way (mid)
    undo,           \* history: the navigations since the last other write to stories/current_index, up to a pair of opposite ones: the index before them (from) and their operations (ops)
    \* ---- clean_html, as load_feeds applies it to one entry (lines 114-117)
    raw_content,    \* the entry's markup: a sequence of characters, tags and entities
    clean_text,     \* clean_html(raw_content)
    reclean_text,   \* clean_html(clean_text)
    clean_pc,       \* "idle" (no entry), "raw", "cleaned" (clean_text is set), "recleaned" (reclean_text is set)
    \* ---- PomodoroApp (src/pomodoro.py)
    timer_obj,      \* PomodoroApp.timer_obj: 0 for None, else the number of a timer of `timers`
    total_seconds,  \* PomodoroApp.total_seconds
    timers,         \* the interval timers set_interval has made, in order: TRUE while active
    clock,          \* the Digits widget: [minutes, seconds]
    bells,          \* history: the calls of bell() since the last action_start_timer
    \* ---- NoteApp (src/notes.py)
    editor,         \* the TextArea's text, by what save_to_simplenote makes of it: "empty", "no_body", "note"
    modal,          \* AskAIModal is on the screen
    workers,        \* the workers run_worker has made, in order: [kind, state, outcome]
    toast           \* the last notification

rss_vars == <<app, stories, current_index, auto_timer, refresh_timer, display, run, fg, streak, last_nav, undo>>
clean_vars == <<raw_content, clean_text, reclean_text, clean_pc>>
pomodoro_vars == <<timer_obj, total_seconds, timers, clock, bells>>
note_vars == <<editor, modal, workers, toast>>
other_apps == <<clean_vars, pomodoro_vars, note_vars>>
vars == <<rss_vars, other_apps>>

\* ------------------------------------------------------------------ values
\* A widget text is a status message (run = 0) or a field of a story; a story's
\* title and body carry the story's origin <<run, src, item>> so that texts of
\* different stories differ.
Text(msg) == [text |-> msg, run |-> 0, src |-> 0, item |-> 0]
ItemText(kind, r, s, k) == [text |-> kind, run |-> r, src |-> s, item |-> k]
NoMeta == [source |-> 0, date |-> 0]

\* all_entries.append({...}), one dictionary per processed entry
Entry(r, s, k, d) ==
    [title |-> ItemText("title", r, s, k), date |-> d, source |-> s,
     body |-> ItemText("body", r, s, k)]

Min(a, b) == IF a < b THEN a ELSE b

\* ------------------------------------------------------------------ sorted
\* sorted(all_entries, key=date, reverse=True): a stable sort, equal dates keep
\* their order in all_entries.  Insert x behind every element that does not
\* sort after it.
RECURSIVE InsertByDate(_, _)
InsertByDate(x, s) ==
    IF s = <<>> THEN <<x>>
    ELSE IF Head(s).date >= x.date THEN <<Head(s)>> \o InsertByDate(x, Tail(s))
    ELSE <<x>> \o s

RECURSIVE SortFrom(_, _)
SortFrom(acc, rest) ==
    IF rest = <<>> THEN acc ELSE SortFrom(InsertByDate(Head(rest), acc), Tail(rest))

RECURSIVE Reverse(_)
Reverse(s) == IF s = <<>> THEN <<>> ELSE Reverse(Tail(s)) \o <<Head(s)>>

\* a faulty variant: an ascending stable sort, reversed (ties come out in reverse order)
RECURSIVE InsertByDateAsc(_, _)
InsertByDateAsc(x, s) ==
    IF s = <<>> THEN <<x>>
    ELSE IF Head(s).date <= x.date THEN <<Head(s)>> \o InsertByDateAsc(x, Tail(s))
    ELSE <<x>> \o s

RECURSIVE SortAscFrom(_, _)
SortAscFrom(acc, rest) ==
    IF rest = <<>> THEN acc ELSE SortAscFrom(InsertByDateAsc(Head(rest), acc), Tail(rest))

sorted_ascending_reversed(entries) == Reverse(SortAscFrom(<<>>, entries))

sorted_by_date_desc(entries) == SortFrom(<<>>, entries)

\* ------------------------------------------------------------------ clean_html
\* Markup and text are sequences of characters; a tag or an entity is one
\* element.  In a text, "<p>" stands for the three characters < p >.
Whitespace == {" ", "\n", "\t"}
Letters == {"a", "b"}
Tags == {"<p>", "</p>", "<br>"}
Entities == {"&lt;p&gt;"}
Markup == Letters \cup Whitespace \cup Tags \cup Entities
Inline == Letters \cup Whitespace \cup {"<br>"}

\* html_content is None
Absent == <<"None">>
\* the entity's character data
Decode(t) == IF t = "&lt;p&gt;" THEN "<p>" ELSE t

\* BeautifulSoup(html_content, "lxml"): the document as its nodes in document
\* order, a paragraph element (open) or a character of text (ch), each with
\* the number of the paragraph it belongs to (0: outside every paragraph).
\* <p> closes the paragraph that is open; </p> without an open paragraph is
\* dropped; <br> holds no text; blanks before the first element or text are
\* skipped; text that begins the document is put in a paragraph of its own.
\* cur: the open paragraph, count: the paragraphs so far, started: an element
\* or text has been seen.
PNode(n) == [para |-> n, open |-> TRUE, ch |-> ""]
TNode(n, t) == [para |-> n, open |-> FALSE, ch |-> Decode(t)]

RECURSIVE parse(_, _, _, _)
parse(x, cur, count, started) ==
    IF x = <<>> THEN <<>>
    ELSE LET t == Head(x)
             r == Tail(x)
         IN CASE t = "<p>" -> <<PNode(count + 1)>> \o parse(r, count + 1, count + 1, TRUE)
              [] t = "</p>" -> parse(r, 0, count, started)
              [] t = "<br>" -> parse(r, cur, count, TRUE)
              [] t \in Whitespace ->
                    IF started THEN <<TNode(cur, t)>> \o parse(r, cur, count, TRUE)
                    ELSE parse(r, cur, count, FALSE)
              [] OTHER ->
                    IF started THEN <<TNode(cur, t)>> \o parse(r, cur, count, TRUE)
                    ELSE <<PNode(count + 1), TNode(count + 1, t)>>
                         \o parse(r, count + 1, count + 1, TRUE)

BeautifulSoup(html_content) == parse(html_content, 0, 0, FALSE)

\* soup.find('p'): the number of the first paragraph, 0 for None
find_p(soup) == IF \E i \in 1..Len(soup) : soup[i].open THEN 1 ELSE 0

\* first_p.get_text() and soup.get_text(): the text nodes, joined with nothing
\* between them
RECURSIVE text_of(_, _)
text_of(soup, paras) ==
    IF soup = <<>> THEN <<>>
    ELSE IF ~Head(soup).open /\ Head(soup).para \in paras
         THEN <<Head(soup).ch>> \o text_of(Tail(soup), paras)
         ELSE text_of(Tail(soup), paras)

get_text(soup, first_p) ==
    IF first_p # 0 THEN text_of(soup, {first_p}) ELSE text_of(soup, 0..Len(soup))

\* str.strip()
RECURSIVE lstrip(_)
lstrip(s) == IF s # <<>> /\ Head(s) \in Whitespace THEN lstrip(Tail(s)) ELSE s
RECURSIVE rstrip(_)
rstrip(s) ==
    IF s # <<>> /\ s[Len(s)] \in Whitespace THEN rstrip(SubSeq(s, 1, Len(s) - 1)) ELSE s
strip(s) == rstrip(lstrip(s))

\* a faulty variant: r'\s' for r'\s+', every whitespace character becomes a space
RECURSIVE re_sub_each(_)
re_sub_each(s) ==
    IF s = <<>> THEN <<>>
    ELSE <<IF Head(s) \in Whitespace THEN " " ELSE Head(s)>> \o re_sub_each(Tail(s))

\* re.sub(r'\s+', ' ', raw_text): every maximal run of whitespace becomes one space
RECURSIVE re_sub_runs(_)
re_sub_runs(s) ==
    IF s = <<>> THEN <<>>
    ELSE IF Head(s) \in Whitespace THEN <<" ">> \o re_sub_runs(lstrip(s))
    ELSE <<Head(s)>> \o re_sub_runs(Tail(s))

NoContent == <<"No", " ", "content", " ", "available.">>

\* lines 149-164
clean_html(html_content) ==
    IF html_content = <<>> \/ html_content = Absent THEN NoContent
    ELSE LET soup == BeautifulSoup(html_content)
             raw_text == get_text(soup, find_p(soup))
         IN strip(re_sub_runs(raw_text))

\* no entry is being cleaned
NoEntry ==
    /\ raw_content = <<>>
    /\ clean_text = <<>>
    /\ reclean_text = <<>>
    /\ clean_pc = "idle"

\* line 117: clean_text = self.clean_html(raw_content)
clean_entry ==
    /\ clean_pc = "raw"
    /\ clean_text' = clean_html(raw_content)
    /\ clean_pc' = "cleaned"
    /\ UNCHANGED <<raw_content, reclean_text, rss_vars, pomodoro_vars, note_vars>>

\* clean_html applied to its own result
clean_again ==
    /\ clean_pc = "cleaned"
    /\ reclean_text' = clean_html(clean_text)
    /\ clean_pc' = "recleaned"
    /\ UNCHANGED <<raw_content, clean_text, rss_vars, pomodoro_vars, note_vars>>

\* ------------------------------------------------------------------ PomodoroApp
\* All of PomodoroApp runs on the event loop: a key press and a timer's
\* callback are handled one at a time, each to its end.
SecondsPerMinute == 60
Minutes == {25, 10, 5}          \* the bindings "1", "2", "3"

\* __init__ and compose
PomodoroInit ==
    /\ timer_obj = 0
    /\ total_seconds = 0
    /\ timers = <<>>
    /\ clock = [minutes |-> 0, seconds |-> 0]
    /\ bells = 0

\* update_clock_display: divmod(self.total_seconds, 60)
update_clock_display(seconds) ==
    [minutes |-> seconds \div SecondsPerMinute, seconds |-> seconds % SecondsPerMinute]

\* a faulty variant: the timer that is running is left running
stop_forgotten(ts, t) == ts

\* `if self.timer_obj: self.timer_obj.stop()`; a stopped timer stays stopped
stop_timer(ts, t) == IF t # 0 THEN [ts EXCEPT ![t] = FALSE] ELSE ts

\* lines 39-49
action_start_timer ==
    /\ Len(timers) < MaxStarts
    /\ \E minutes \in Minutes :
        /\ total_seconds' = minutes * SecondsPerMinute
        /\ clock' = update_clock_display(total_seconds')
    /\ timers' = Append(stop_timer(timers, timer_obj), TRUE)
    /\ timer_obj' = Len(timers) + 1
    /\ bells' = 0
    /\ UNCHANGED <<rss_vars, clean_vars, note_vars>>

\* lines 51-61, called by an active interval timer
tick ==
    /\ \E t \in 1..Len(timers) : timers[t]
    /\ IF total_seconds > 0
       THEN /\ total_seconds' = total_seconds - 1
            /\ clock' = update_clock_display(total_seconds')
            /\ UNCHANGED <<timers, bells>>
       ELSE /\ timers' = stop_timer(timers, timer_obj)
            /\ clock' = [minutes |-> 0, seconds |-> 0]
            /\ bells' = Min(bells + 1, 2)
            /\ UNCHANGED total_seconds
    /\ UNCHANGED <<timer_obj, rss_vars, clean_vars, note_vars>>

\* ------------------------------------------------------------------ NoteApp
\* The workers of NoteApp are coroutines on the event loop.  A worker is
\* "pending" (its task is made and has not run yet), "waiting" (at `await
\* asyncio.to_thread(...)`, the call running in a thread), "returned" (the
\* call is over, its result in `result`, the coroutine not yet resumed),
\* "finished" or "cancelled".
NoteInit ==
    /\ editor = "empty"
    /\ modal = FALSE
    /\ workers = <<>>
    /\ toast = "none"

Active(w) == w.state \in {"pending", "waiting", "returned"}

\* run_worker(..., exclusive=True): the workers of the group that have not
\* ended are cancelled: CancelledError is raised in the coroutine where it
\* waits, which `except Exception` does not catch, so it ends there.
run_exclusive(kind) ==
    Append([i \in 1..Len(workers) |->
                IF Active(workers[i]) THEN [workers[i] EXCEPT !.state = "cancelled"]
                ELSE workers[i]],
           [kind |-> kind, state |-> "pending", result |-> "none", outcome |-> "none"])

\* the user types: the text becomes any text
edit_text ==
    /\ ~modal
    /\ \E text \in {"empty", "no_body", "note"} : editor' = text /\ editor' # editor
    /\ UNCHANGED <<modal, workers, toast, rss_vars, clean_vars, pomodoro_vars>>

\* lines 89-93
action_new_note ==
    /\ ~modal
    /\ editor' = "empty"
    /\ toast' = "Editor cleared for new note."
    /\ UNCHANGED <<modal, workers, rss_vars, clean_vars, pomodoro_vars>>

\* lines 95-148: action_save_note and save_to_simplenote
action_save_note ==
    /\ ~modal
    /\ CASE editor = "empty" ->
                toast' = "Cannot save empty note." /\ UNCHANGED workers
         [] editor = "no_body" ->
                toast' = "Note body is empty after skipping title/tags." /\ UNCHANGED workers
         [] OTHER ->
                /\ Len(workers) < MaxWorkers
                /\ workers' = run_exclusive("save")
                /\ UNCHANGED toast
    /\ UNCHANGED <<editor, modal, rss_vars, clean_vars, pomodoro_vars>>

\* lines 162-164
action_ask_ai ==
    /\ ~modal
    /\ modal' = TRUE
    /\ UNCHANGED <<editor, workers, toast, rss_vars, clean_vars, pomodoro_vars>>

\* lines 63-64 and 166-172: the modal is submitted and dismissed, with a prompt or without
handle_ai_response ==
    /\ modal
    /\ modal' = FALSE
    /\ \E prompt \in {"", "prompt"} :
        IF prompt = ""
        THEN UNCHANGED <<workers, toast>>
        ELSE /\ Len(workers) < MaxWorkers
             /\ toast' = "Consulting Google AI..."
             /\ workers' = run_exclusive("ai")
    /\ UNCHANGED <<editor, rss_vars, clean_vars, pomodoro_vars>>

\* the worker's task runs up to `await asyncio.to_thread(...)` (lines 154, 178)
worker_begin(w) ==
    /\ workers[w].state = "pending"
    /\ workers' = [workers EXCEPT ![w].state = "waiting"]
    /\ UNCHANGED <<editor, modal, toast, rss_vars, clean_vars, pomodoro_vars>>

\* sn_client.add_note returns a status or raises; generate_content returns or raises
Results(kind) == IF kind = "save" THEN {"0", "-1", "raised"} ELSE {"response", "raised"}

thread_returns(w) ==
    /\ workers[w].state = "waiting"
    /\ \E res \in Results(workers[w].kind) :
        workers' = [workers EXCEPT ![w].state = "returned", ![w].result = res]
    /\ UNCHANGED <<editor, modal, toast, rss_vars, clean_vars, pomodoro_vars>>

\* lines 155-160 and 180-189: the coroutine goes on from its await to its end
Notice(kind, res) ==
    CASE kind = "save" /\ res = "0" -> "Saved"
      [] kind = "save" /\ res = "-1" -> "Error saving note."
      [] kind = "save" -> "API Error"
      [] kind = "ai" /\ res = "response" -> "AI response added."
      [] OTHER -> "AI Error"

worker_resume(w) ==
    /\ workers[w].state = "returned"
    /\ LET kind == workers[w].kind
           res == workers[w].result
       IN /\ workers' = [workers EXCEPT ![w].state = "finished", ![w].result = "none",
                                         ![w].outcome = Notice(kind, res)]
          /\ toast' = Notice(kind, res)
          /\ IF kind = "ai" /\ res = "response"
             THEN \E text \in {"no_body", "note"} :
                    editor' = IF editor = "note" THEN "note" ELSE text
             ELSE UNCHANGED editor
    /\ UNCHANGED <<modal, rss_vars, clean_vars, pomodoro_vars>>

\* ------------------------------------------------------------------ initial state
IdleRun == [pc |-> "idle", urls |-> 0, k |-> 0, all_entries |-> <<>>, failed |-> {}, cancelled |-> FALSE]
IdleFg == [pc |-> "idle", op |-> "none", by |-> "none", caller |-> 0, tmp_i |-> 0]
NoStreak == [on |-> FALSE, start |-> 0, seen |-> <<>>]
NoUndo == [from |-> 0, ops |-> <<>>]

\* RSSReaderApp after construction and compose, before on_mount
Unmounted ==
    /\ app = "init"
    /\ stories = <<>>
    /\ current_index = 0
    /\ auto_timer = [armed |-> FALSE, elapsed |-> 0]
    /\ refresh_timer = FALSE
    /\ display = [title |-> Text("Loading feeds..."), meta |-> NoMeta, body |-> Text("")]
    /\ run = [r \in Runs |-> IdleRun]
    /\ fg = IdleFg
    /\ streak = NoStreak
    /\ last_nav = [age |-> AutoTicks, mid |-> FALSE]
    /\ undo = NoUndo

Init ==
    /\ Unmounted
    /\ NoEntry
    /\ PomodoroInit
    /\ NoteInit

\* ------------------------------------------------------------------ workers
\* run_worker(self.load_feeds, exclusive=True, thread=True): the new worker is the
\* next unused one; the workers still running are marked cancelled, but a thread
\* worker is not interrupted and load_feeds never looks at the mark.
Live(r) == run[r].pc \notin {"idle", "done", "raised"}
NextRun == CHOOSE r \in Runs : run[r].pc = "idle" /\ \A q \in Runs : q < r => run[q].pc # "idle"

run_worker ==
    [x \in Runs |->
        IF x = NextRun THEN [IdleRun EXCEPT !.pc = "open"]
        ELSE IF Live(x) THEN [run[x] EXCEPT !.cancelled = TRUE]
        ELSE run[x]]

\* The locals of load_feeds (urls, the loop position, all_entries) are dead once
\* line 137 has read all_entries; only the worker's cancelled mark remains.
Returning(w) == [IdleRun EXCEPT !.cancelled = w.cancelled]
Ended(how) == [IdleRun EXCEPT !.pc = how]

\* An exception that leaves load_feeds: the worker ends in error, and the app
\* exits on a worker error (exit_on_error) unless the worker was cancelled.
worker_raises(r) ==
    /\ run' = [run EXCEPT ![r] = Ended("raised")]
    /\ app' = IF run[r].cancelled THEN app ELSE "crashed"

\* on_mount: the first load, then the two interval timers.
on_mount ==
    /\ app = "init"
    /\ app' = "running"
    /\ run' = run_worker
    /\ auto_timer' = [armed |-> TRUE, elapsed |-> 0]
    /\ refresh_timer' = TRUE
    /\ UNCHANGED <<stories, current_index, display, fg, streak, undo, last_nav, other_apps>>

\* refresh_feeds, from the "r" key or from the refresh timer.
refresh_feeds ==
    /\ app = "running"
    /\ fg.pc = "idle"
    /\ refresh_timer
    /\ \E r \in Runs : run[r].pc = "idle"
    /\ run' = run_worker
    /\ UNCHANGED <<app, stories, current_index, auto_timer, refresh_timer, display, fg, streak, undo, last_nav, other_apps>>

\* load_feeds, lines 100-105: open and read feeds.txt.
OpenOutcomes == {"ok", "FileNotFoundError", "OSError"}

load_feeds_open(r) ==
    /\ app = "running"
    /\ run[r].pc = "open"
    /\ \E outcome \in OpenOutcomes :
        \/ /\ outcome = "ok"
           /\ run' = [run EXCEPT ![r].urls = NumSources, ![r].k = 1, ![r].pc = "fetch"]
           /\ UNCHANGED app
        \/ /\ outcome = "FileNotFoundError"
           /\ run' = [run EXCEPT ![r].pc = "call_notfound"]
           /\ UNCHANGED app
        \/ /\ outcome = "OSError"       \* PermissionError, IsADirectoryError, ...: not caught
           /\ worker_raises(r)
    /\ UNCHANGED <<stories, current_index, auto_timer, refresh_timer, display, fg, streak, undo, last_nav, other_apps>>

\* What one pass of the loop body (lines 109-133) can leave behind for one url:
\* the dates of the entries appended before the feed was exhausted (failed =
\* FALSE) or before an exception was caught by `except Exception: continue`
\* (failed = TRUE: feedparser.parse or the processing of the next entry raised).
SeqsUpTo(n, dates) == UNION {[1..m -> dates] : m \in 0..n}
FetchOutcomes ==
    {o \in [kept : SeqsUpTo(MaxItems, Dates), failed : BOOLEAN] :
        o.failed => Len(o.kept) < MaxItems}
\* the feeds of the whole-program specification: one date, no failure
PlainOutcomes ==
    {o \in [kept : SeqsUpTo(MaxItems, {1}), failed : BOOLEAN] : ~o.failed}
\* the feeds of the overlapping-workers specification: at most one entry each
OneEntryOutcomes ==
    {o \in [kept : SeqsUpTo(1, {1}), failed : BOOLEAN] : ~o.failed}

\* the feeds of the refresh specification: one entry, none, or a failure
FailingOutcomes ==
    {o \in [kept : SeqsUpTo(1, {1}), failed : BOOLEAN] : o.failed => o.kept = <<>>}

\* a faulty variant: the result is stored whether or not it is empty
after_loop_always_store(entries) == "store"

\* line 136: `if all_entries:`
after_loop(entries) == IF entries # <<>> THEN "store" ELSE "call_status"

load_feeds_fetch(r, outcomes) ==
    /\ app = "running"
    /\ run[r].pc = "fetch"
    /\ \E o \in outcomes :
        LET s == run[r].k
            new == [i \in 1..Len(o.kept) |-> Entry(r, s, i, o.kept[i])]
            entries == run[r].all_entries \o new
        IN run' = [run EXCEPT
                     ![r].all_entries = entries,
                     ![r].failed = IF o.failed THEN @ \cup {s} ELSE @,
                     ![r].k = s + 1,
                     ![r].pc = IF s = run[r].urls THEN after_loop(entries) ELSE "fetch"]
    /\ UNCHANGED <<app, stories, current_index, auto_timer, refresh_timer, display, fg, streak, undo, last_nav, other_apps>>

\* a faulty variant: the new entries are merged into the list on display
publish_merged(entries) == sorted_by_date_desc(stories \o entries)

\* line 137, right-hand side
publish(entries) == sorted_by_date_desc(entries)

\* line 137, in the worker thread
load_feeds_store(r) ==
    /\ app = "running"
    /\ run[r].pc = "store"
    /\ stories' = publish(run[r].all_entries)
    /\ run' = [run EXCEPT ![r] = [Returning(@) EXCEPT !.pc = "reset"]]
    /\ streak' = NoStreak /\ undo' = NoUndo
    /\ UNCHANGED <<app, current_index, auto_timer, refresh_timer, display, fg, last_nav, other_apps>>

\* line 139, in the worker thread
load_feeds_reset(r) ==
    /\ app = "running"
    /\ run[r].pc = "reset"
    /\ current_index' = 0
    /\ run' = [run EXCEPT ![r].pc = "call_update"]
    /\ streak' = NoStreak /\ undo' = NoUndo
    /\ UNCHANGED <<app, stories, auto_timer, refresh_timer, display, fg, last_nav, other_apps>>

\* line 140: call_from_thread(self.update_display); the event loop runs
\* update_display when it is free and the worker waits for it to return.
load_feeds_call_update(r) ==
    /\ app = "running"
    /\ run[r].pc = "call_update"
    /\ fg.pc = "idle"
    /\ fg' = [IdleFg EXCEPT !.pc = "disp_bounds", !.op = "worker", !.caller = r]
    /\ run' = [run EXCEPT ![r].pc = "in_call"]
    /\ UNCHANGED <<app, stories, current_index, auto_timer, refresh_timer, display, streak, undo, last_nav, other_apps>>

\* lines 104 and 142: call_from_thread(title.update, message), run by the event loop
status_update(r, at, msg) ==
    /\ app = "running"
    /\ run[r].pc = at
    /\ fg.pc = "idle"
    /\ display' = [display EXCEPT !.title = Text(msg)]
    /\ run' = [run EXCEPT ![r] = Ended("done")]
    /\ UNCHANGED <<app, stories, current_index, auto_timer, refresh_timer, fg, streak, undo, last_nav, other_apps>>

load_feeds_call_status(r) == status_update(r, "call_status", "No stories found.")
load_feeds_call_notfound(r) == status_update(r, "call_notfound", "Error: feeds.txt not found")

\* ------------------------------------------------------------------ event loop
\* a faulty variant: the index moves by two
next_index_skipping(i, n) == (i + 2) % n

\* a faulty variant: the index stops at 0 instead of wrapping to the last story
prev_index_clamped(i, n) == IF i = 0 THEN 0 ELSE i - 1

\* lines 187 and 195, right-hand sides
next_index(i, n) == (i + 1) % n
prev_index(i, n) == (i - 1) % n

\* a faulty variant: the countdown is left as it is
timer_not_reset(t) == t

\* Timer.reset(): the countdown starts again from the beginning.
timer_reset(t) == [t EXCEPT !.elapsed = 0]

\* One clock tick; the handlers take no time, the fetches do.  An interval timer
\* whose interval has elapsed fires before the clock moves on.
Tick ==
    /\ app = "running"
    /\ fg.pc = "idle"
    /\ auto_timer.armed
    /\ auto_timer.elapsed < AutoTicks
    /\ auto_timer' = [auto_timer EXCEPT !.elapsed = @ + 1]
    /\ last_nav' = [last_nav EXCEPT !.age = Min(@ + 1, AutoTicks)]
    /\ UNCHANGED <<app, stories, current_index, refresh_timer, display, run, fg, streak, undo, other_apps>>

\* a faulty variant: the handler goes on to the write without `if self.stories:`
nav_enter_unguarded(op, by) ==
    /\ fg' = [IdleFg EXCEPT !.pc = "nav_write", !.op = op, !.by = by, !.tmp_i = current_index]
    /\ UNCHANGED <<streak, undo>>

\* lines 186-187 and 194-195 up to the read of self.current_index.  `if
\* self.stories:` is taken with that read: the list never becomes empty again,
\* so the test gives the same answer at both places.
nav_enter(op, by) ==
    IF stories = <<>>
    THEN UNCHANGED <<fg, streak, undo, last_nav>>
    ELSE /\ fg' = [IdleFg EXCEPT !.pc = "nav_write", !.op = op, !.by = by, !.tmp_i = current_index]
         /\ streak' = IF op = "next"
                      THEN IF streak.on /\ Len(streak.seen) < Len(stories)
                           THEN streak
                           ELSE [on |-> TRUE, start |-> current_index, seen |-> <<>>]
                      ELSE NoStreak
         /\ UNCHANGED undo

\* action_next_story is entered from the right/space keys, or from the auto-advance
\* timer when its interval has elapsed (the timer then starts its next interval).
action_next_story ==
    /\ app = "running"
    /\ fg.pc = "idle"
    /\ \E by \in {"key", "timer"} :
        /\ by = "timer" => auto_timer.armed /\ auto_timer.elapsed = AutoTicks
        /\ auto_timer' = IF by = "timer" THEN [auto_timer EXCEPT !.elapsed = 0] ELSE auto_timer
        /\ nav_enter("next", by)
    /\ UNCHANGED <<app, stories, current_index, refresh_timer, display, run, last_nav, other_apps>>

\* action_prev_story is entered from the left key.
action_prev_story ==
    /\ app = "running"
    /\ fg.pc = "idle"
    /\ nav_enter("prev", "key")
    /\ UNCHANGED <<app, stories, current_index, auto_timer, refresh_timer, display, run, last_nav, other_apps>>

\* lines 187 and 195: len(self.stories) and the assignment to self.current_index
nav_write ==
    /\ app = "running"
    /\ fg.pc = "nav_write"
    /\ current_index' = IF fg.op = "next" THEN next_index(fg.tmp_i, Len(stories))
                        ELSE prev_index(fg.tmp_i, Len(stories))
    /\ streak' = IF fg.op = "next" /\ streak.on
                 THEN [streak EXCEPT !.seen = Append(@, current_index')]
                 ELSE NoStreak
    /\ undo' = IF Len(undo.ops) = 1 /\ undo.ops[1] # fg.op
               THEN [undo EXCEPT !.ops = Append(@, fg.op)]
               ELSE [from |-> fg.tmp_i, ops |-> <<fg.op>>]
    /\ fg' = [fg EXCEPT !.pc = "disp_bounds"]
    /\ UNCHANGED <<app, stories, auto_timer, refresh_timer, display, run, last_nav, other_apps>>

\* What follows update_display in its caller: lines 189-190 and 197-198 for a
\* navigation, the return of call_from_thread and of load_feeds for a worker.
after_display ==
    /\ fg' = IdleFg
    /\ auto_timer' = IF fg.op \in {"next", "prev"} /\ auto_timer.armed
                     THEN timer_reset(auto_timer) ELSE auto_timer
    /\ run' = IF fg.op = "worker" THEN [run EXCEPT ![fg.caller] = Ended("done")] ELSE run
    /\ last_nav' = IF fg.op \in {"next", "prev"} /\ auto_timer.armed /\ fg.by = "key"
                   THEN [age |-> 0, mid |-> auto_timer.elapsed \in 1..(AutoTicks - 1)]
                   ELSE last_nav

\* lines 168-173: `if not self.stories: return`, then the bounds check
update_display_bounds ==
    /\ app = "running"
    /\ fg.pc = "disp_bounds"
    /\ IF stories = <<>>
       THEN after_display /\ UNCHANGED <<current_index, streak, undo>>
       ELSE /\ fg' = [fg EXCEPT !.pc = "disp_show"]
            /\ IF current_index >= Len(stories)
               THEN current_index' = 0 /\ streak' = NoStreak /\ undo' = NoUndo
               ELSE UNCHANGED <<current_index, streak, undo>>
            /\ UNCHANGED <<auto_timer, run, last_nav>>
    /\ UNCHANGED <<app, stories, refresh_timer, display, other_apps>>

\* lines 175-182: index the list and write the three widgets; an index past the
\* end raises IndexError, which ends the app, or only the worker that called
\* update_display when that worker was cancelled.
update_display_show ==
    /\ app = "running"
    /\ fg.pc = "disp_show"
    /\ IF current_index < Len(stories)
       THEN /\ LET story == stories[current_index + 1]
               IN display' = [title |-> story.title,
                              meta |-> [source |-> story.source, date |-> story.date],
                              body |-> story.body]
            /\ after_display
            /\ UNCHANGED app
       ELSE /\ IF fg.op = "worker"
               THEN worker_raises(fg.caller)
               ELSE app' = "crashed" /\ UNCHANGED run
            /\ fg' = IdleFg
            /\ UNCHANGED <<display, auto_timer, last_nav>>
    /\ UNCHANGED <<stories, current_index, refresh_timer, streak, undo, other_apps>>

\* ------------------------------------------------------------------ specifications
\* The whole program: overlapping workers, navigation and the timers, over
\* feeds whose entries carry one date.
Next ==
    \/ on_mount
    \/ refresh_feeds
    \/ \E r \in Runs : load_feeds_open(r)
    \/ \E r \in Runs : load_feeds_fetch(r, PlainOutcomes)
    \/ \E r \in Runs : load_feeds_store(r)
    \/ \E r \in Runs : load_feeds_reset(r)
    \/ \E r \in Runs : load_feeds_call_update(r)
    \/ \E r \in Runs : load_feeds_call_status(r)
    \/ \E r \in Runs : load_feeds_call_notfound(r)
    \/ Tick
    \/ action_next_story
    \/ action_prev_story
    \/ nav_write
    \/ update_display_bounds
    \/ update_display_show

Spec == Init /\ [][Next]_vars

\* One load_feeds run from startup to its display update, over every feed
\* content within the bounds, failures at any entry included.
NextIngest ==
    \/ on_mount
    \/ \E r \in Runs : load_feeds_open(r)
    \/ \E r \in Runs : load_feeds_fetch(r, FetchOutcomes)
    \/ \E r \in Runs : load_feeds_store(r)
    \/ \E r \in Runs : load_feeds_reset(r)
    \/ \E r \in Runs : load_feeds_call_update(r)
    \/ \E r \in Runs : load_feeds_call_status(r)
    \/ \E r \in Runs : load_feeds_call_notfound(r)
    \/ update_display_bounds
    \/ update_display_show

SpecIngest == Init /\ [][NextIngest]_vars

\* The workers alone: every start of a worker while others are still running,
\* and the display updates they request, without navigation and clock.
NextWorkers ==
    \/ on_mount
    \/ refresh_feeds
    \/ \E r \in Runs : load_feeds_open(r)
    \/ \E r \in Runs : load_feeds_fetch(r, OneEntryOutcomes)
    \/ \E r \in Runs : load_feeds_store(r)
    \/ \E r \in Runs : load_feeds_reset(r)
    \/ \E r \in Runs : load_feeds_call_update(r)
    \/ \E r \in Runs : load_feeds_call_status(r)
    \/ \E r \in Runs : load_feeds_call_notfound(r)
    \/ update_display_bounds
    \/ update_display_show

SpecWorkers == Init /\ [][NextWorkers]_vars

\* The rotation alone: the state in which the first worker has published and
\* displayed a list of 1..MaxStories stories and returned, then navigation, the
\* auto-advance timer and the clock, with no further worker.
RotationLists ==
    {[i \in 1..n |-> Entry(1, 1, i, 1)] : n \in 1..MaxStories}

InitRotation ==
    /\ app = "running"
    /\ \E entries \in RotationLists : stories = publish(entries)
    /\ current_index = 0
    /\ auto_timer = [armed |-> TRUE, elapsed |-> 0]
    /\ refresh_timer = TRUE
    /\ display = [title |-> stories[1].title,
                  meta |-> [source |-> stories[1].source, date |-> stories[1].date],
                  body |-> stories[1].body]
    /\ run = [r \in Runs |-> IF r = 1 THEN Ended("done") ELSE IdleRun]
    /\ fg = IdleFg
    /\ streak = NoStreak
    /\ last_nav = [age |-> AutoTicks, mid |-> FALSE]
    /\ undo = NoUndo
    /\ NoEntry
    /\ PomodoroInit
    /\ NoteInit

NextRotation ==
    \/ Tick
    \/ action_next_story
    \/ action_prev_story
    \/ nav_write
    \/ update_display_bounds
    \/ update_display_show

SpecRotation == InitRotation /\ [][NextRotation]_vars

\* The start: the first worker alone, with navigation, the auto-advance timer
\* and the clock from on_mount on, so that the handlers run on the empty list.
NextStartup ==
    \/ on_mount
    \/ \E r \in Runs : load_feeds_open(r)
    \/ \E r \in Runs : load_feeds_fetch(r, OneEntryOutcomes)
    \/ \E r \in Runs : load_feeds_store(r)
    \/ \E r \in Runs : load_feeds_reset(r)
    \/ \E r \in Runs : load_feeds_call_update(r)
    \/ \E r \in Runs : load_feeds_call_status(r)
    \/ \E r \in Runs : load_feeds_call_notfound(r)
    \/ Tick
    \/ action_next_story
    \/ action_prev_story
    \/ nav_write
    \/ update_display_bounds
    \/ update_display_show

SpecStartup == Init /\ [][NextStartup]_vars

\* Refreshes of a list on display: from the state in which the first worker has
\* published, navigation and further workers, whose sources may all fail.
NextRefresh ==
    \/ refresh_feeds
    \/ \E r \in Runs : load_feeds_open(r)
    \/ \E r \in Runs : load_feeds_fetch(r, FailingOutcomes)
    \/ \E r \in Runs : load_feeds_store(r)
    \/ \E r \in Runs : load_feeds_reset(r)
    \/ \E r \in Runs : load_feeds_call_update(r)
    \/ \E r \in Runs : load_feeds_call_status(r)
    \/ \E r \in Runs : load_feeds_call_notfound(r)
    \/ action_next_story
    \/ action_prev_story
    \/ nav_write
    \/ update_display_bounds
    \/ update_display_show

SpecRefresh == InitRotation /\ [][NextRefresh]_vars

\* clean_html alone: every raw_content of up to MaxLen characters and tags, the
\* absent one, and the contents made of two paragraphs.
TwoParagraphs ==
    {<<"<p>">> \o first \o <<"</p>", "<p>">> \o second \o <<"</p>">> :
        first \in SeqsUpTo(MaxInner, Inline), second \in SeqsUpTo(1, {"c"})}
RawContents == SeqsUpTo(MaxLen, Markup) \cup {Absent} \cup TwoParagraphs

InitClean ==
    /\ Unmounted
    /\ raw_content \in RawContents
    /\ clean_text = <<>>
    /\ reclean_text = <<>>
    /\ clean_pc = "raw"
    /\ PomodoroInit
    /\ NoteInit

NextClean ==
    \/ clean_entry
    \/ clean_again

SpecClean == InitClean /\ [][NextClean]_vars

\* PomodoroApp
NextPomodoro ==
    \/ action_start_timer
    \/ tick

SpecPomodoro == Init /\ [][NextPomodoro]_vars

\* NoteApp
NextNotes ==
    \/ edit_text
    \/ action_new_note
    \/ action_save_note
    \/ action_ask_ai
    \/ handle_ai_response
    \/ \E w \in 1..Len(workers) : worker_begin(w)
    \/ \E w \in 1..Len(workers) : thread_returns(w)
    \/ \E w \in 1..Len(workers) : worker_resume(w)

SpecNotes == Init /\ [][NextNotes]_vars


\* ------------------------------------------------------------------ claims
\* the worker whose result `stories` holds (every story carries its worker)
StoriesRun == stories[1].title.run
EntriesOf(w, s) == {i \in 1..Len(w.all_entries) : w.all_entries[i].source = s}

\* C1: whenever the story list is non-empty, current_index is a valid index
\* into it, in every reachable state.
C1_IndexValid ==
    stories # <<>> => current_index \in 0..(Len(stories) - 1)

\* What C1 is for: the read stories[current_index] of update_display (line 175)
\* is within bounds.
ReadInBounds ==
    fg.pc = "disp_show" => current_index < Len(stories)

\* C2: no foreground step is taken between a worker's replacement of the story
\* list (line 137) and its reset of current_index (line 139).
C2_AtomicPublish ==
    [][(\E r \in Runs : run[r].pc = "reset") => fg' = fg]_vars

\* C3: a non-empty story list is only ever replaced by the result of a worker
\* started later than the one whose result it holds.
C3_NoStalePublish ==
    [][(stories # <<>> /\ stories' # stories) => StoriesRun' > StoriesRun]_vars

\* the loop of load_feeds is over and every source failed or yielded no entry
TotalFailure(w) ==
    /\ w.pc \in {"store", "call_status"}
    /\ \A s \in Sources : s \in w.failed \/ EntriesOf(w, s) = {}

\* C4: a worker whose every source failed or yielded no entry changes neither
\* the story list nor current_index, and ends by showing "No stories found.".
C4_NoChangeOnTotalFailure ==
    [][\A r \in Runs :
         (TotalFailure(run[r]) /\ run'[r] # run[r]) =>
            /\ stories' = stories
            /\ current_index' = current_index
            /\ run'[r].pc = "done"
            /\ display'.title = Text("No stories found.")]_vars

\* C5: a source whose fetch or entry processing failed has no entry among the
\* worker's gathered entries.
C5_FailedSourceContributesNothing ==
    \A r \in Runs : \A s \in run[r].failed : EntriesOf(run[r], s) = {}

\* every story of the list was gathered by the same worker
SingleRunList ==
    \A i, j \in 1..Len(stories) : stories[i].title.run = stories[j].title.run
\* a step that changes the list is line 137 of one worker, with all it gathered
PublishIsOneResult ==
    stories' # stories =>
        \E r \in Runs :
            /\ run[r].pc = "store"
            /\ run'[r].pc = "reset"
            /\ stories' = sorted_by_date_desc(run[r].all_entries)
            /\ \A i \in 1..Len(stories') : stories'[i].title.run = r

\* C6: the story list holds stories of one worker only, and every change of it
\* replaces it by the complete sorted result of one worker.
C6_OneRunPerList ==
    []SingleRunList /\ [][PublishIsOneResult]_vars
C6_Witness ==
    /\ stories # <<>>
    /\ \E r \in Runs : run[r].pc = "store" /\ r # StoriesRun

\* discovery order: by source, then by entry within the source
Discovered(a, b) ==
    \/ a.title.src < b.title.src
    \/ a.title.src = b.title.src /\ a.title.item < b.title.item

\* C7: the story list is sorted by date, latest first, and stories of equal date
\* are in discovery order (by source, then by entry within the source).
C7_SortedStable ==
    \A i, j \in 1..Len(stories) :
        i < j =>
            /\ stories[i].date >= stories[j].date
            /\ stories[i].date = stories[j].date => Discovered(stories[i], stories[j])
C7_Witness ==
    /\ Len(stories) >= 3
    /\ \E i, j \in 1..Len(stories) :
        i < j /\ stories[i].date = stories[j].date /\ stories[i].source = stories[j].source
    /\ \E i, j \in 1..Len(stories) :
        i < j /\ stories[i].date = stories[j].date /\ stories[i].source # stories[j].source
    /\ \E i, j \in 1..Len(stories) :
        i < j /\ stories[i].date > stories[j].date /\ Discovered(stories[j], stories[i])

\* C8: after as many consecutive advances as the story list has stories, from a
\* valid index and with no write of a publish in between, current_index is back
\* at its starting value and every index was visited exactly once.
C8_AdvanceCycle ==
    (streak.on /\ streak.start < Len(stories) /\ Len(streak.seen) = Len(stories)) =>
        /\ current_index = streak.start
        /\ {streak.seen[i] : i \in 1..Len(streak.seen)} = 0..(Len(stories) - 1)
C8_Witness ==
    /\ streak.on
    /\ Len(stories) >= 3
    /\ streak.start \in 1..(Len(stories) - 1)
    /\ Len(streak.seen) = Len(stories)

\* C9: when the auto-advance timer is due, a full interval has passed since the
\* last manual navigation that reset it.
C9_ManualNavRestartsCountdown ==
    (auto_timer.armed /\ auto_timer.elapsed = AutoTicks) => last_nav.age = AutoTicks
C9_Witness ==
    /\ fg.pc = "idle"
    /\ stories # <<>>
    /\ last_nav.mid
    /\ last_nav.age = AutoTicks
    /\ auto_timer.elapsed = AutoTicks

\* C10: a worker that cannot read the source list does not raise: it goes on to
\* report a status, the app keeps running and the story list and current_index
\* stay as they are.
C10_UnreadableListIsReported ==
    [][\A r \in Runs :
         (run[r].pc = "open" /\ run'[r].pc \notin {"open", "fetch"}) =>
            /\ run'[r].pc = "call_notfound"
            /\ app' = app
            /\ stories' = stories
            /\ current_index' = current_index]_vars

\* C12: clean_html applied to its own result gives that result again.
C12_Idempotent ==
    clean_pc = "recleaned" => reclean_text = clean_text

\* the text has no newline, no tab, no two spaces in a row and no whitespace
\* at either end
Flat(s) ==
    /\ \A i \in 1..Len(s) : s[i] \notin {"\n", "\t"}
    /\ \A i \in 1..(Len(s) - 1) : ~(s[i] = " " /\ s[i + 1] = " ")
    /\ s # <<>> => s[1] \notin Whitespace /\ s[Len(s)] \notin Whitespace

\* C13: whatever the raw content, absent and empty included, the result of
\* clean_html is a string (not None) that is flat.
C13_OutputIsFlat ==
    /\ clean_pc \in {"cleaned", "recleaned"} => clean_text # Absent /\ Flat(clean_text)
    /\ clean_pc = "recleaned" => reclean_text # Absent /\ Flat(reclean_text)
C13_Witness ==
    /\ clean_pc = "cleaned"
    /\ \E i \in 1..(Len(raw_content) - 1) :
            raw_content[i] \in Whitespace /\ raw_content[i + 1] \in Whitespace
    /\ \E i \in 1..Len(clean_text) : clean_text[i] = " "

\* <p>Hello<br>World</p> and a second paragraph, with a for Hello, b for World
HelloWorld == <<"<p>", "a", "<br>", "b", "</p>", "<p>", "c", "</p>">>

\* C14: for the content <p>a<br>b</p> followed by a second paragraph the result
\* is "a b", and the result of a two-paragraph content holds nothing of the
\* second paragraph.
C14_FirstParagraphOnly ==
    (clean_pc = "cleaned" /\ raw_content \in TwoParagraphs) =>
        /\ raw_content = HelloWorld => clean_text = <<"a", " ", "b">>
        /\ \A i \in 1..Len(clean_text) : clean_text[i] # "c"
\* the second half of C14 alone
SecondParagraphExcluded ==
    (clean_pc = "cleaned" /\ raw_content \in TwoParagraphs) =>
        \A i \in 1..Len(clean_text) : clean_text[i] # "c"

\* C11: once started, the app is running with the auto-advance timer and the
\* refresh timer armed, whatever the workers met.
C11_KeepsRunning ==
    app # "init" => app = "running" /\ auto_timer.armed /\ refresh_timer

\* the three widgets as update_display leaves them for a story
Shown(story) ==
    [title |-> story.title,
     meta |-> [source |-> story.source, date |-> story.date],
     body |-> story.body]
NothingShown ==
    /\ display.title.run = 0
    /\ display.meta = NoMeta
    /\ display.body = Text("")

\* C15: while the story list is empty no handler is past its `if self.stories:`
\* guard, current_index is as constructed and the widgets show no story.
C15_EmptyListNoOp ==
    stories = <<>> => fg = IdleFg /\ current_index = 0 /\ NothingShown
C15_Witness ==
    /\ stories = <<>>
    /\ auto_timer.armed /\ auto_timer.elapsed = AutoTicks
    /\ display.title = Text("No stories found.")

\* C16: a retreat writes (i - 1 + length) mod length, and after an advance and
\* a retreat, in either order, from a valid index and with no write of a
\* publish in between, current_index is the index they started from.
C16_RetreatInvertsAdvance ==
    /\ (fg.pc = "disp_bounds" /\ fg.op = "prev" /\ undo.ops # <<>> /\ fg.tmp_i < Len(stories)) =>
            current_index = (fg.tmp_i - 1 + Len(stories)) % Len(stories)
    /\ (Len(undo.ops) = 2 /\ undo.from < Len(stories)) => current_index = undo.from
C16_Witness ==
    /\ Len(stories) >= 2
    /\ undo = [from |-> 0, ops |-> <<"prev", "next">>]

\* a step of refresh_feeds: a worker is started
RefreshStep == \E r \in Runs : run[r].pc = "idle" /\ run'[r].pc = "open"

\* C17: a step of refresh_feeds changes neither the story list nor
\* current_index nor the widgets; a worker's step changes the story list or
\* current_index only at lines 137 and 139, with a result that is not empty.
C17_RefreshChangesNothing ==
    [][/\ RefreshStep =>
            stories' = stories /\ current_index' = current_index /\ display' = display
       /\ (run' # run /\ (stories' # stories \/ current_index' # current_index)) =>
            /\ stories' # <<>>
            /\ \E r \in Runs : \/ run[r].pc = "store" /\ run'[r].pc = "reset"
                               \/ run[r].pc = "reset" /\ run'[r].pc = "call_update"]_vars
C17_Witness ==
    /\ current_index > 0
    /\ \E r \in Runs : run[r].pc = "open"
    /\ fg.pc = "idle"

\* no publish is under way and no handler is running
Quiet ==
    /\ fg.pc = "idle"
    /\ \A r \in Runs : run[r].pc \notin {"reset", "call_update", "in_call"}
DisplayedStoryIsCurrent ==
    (Quiet /\ display.body.run # 0 /\ current_index < Len(stories)) =>
        display = Shown(stories[current_index + 1])
FailedRefreshKeepsDisplay ==
    \A r \in Runs :
        (run[r].pc = "call_status" /\ run[r].failed = Sources /\ display.body.run # 0) =>
            display' = display

\* C18: once a story is on display, whenever no publish is under way and no
\* handler is running the three widgets show stories[current_index], and the
\* last step of a worker whose sources all failed leaves the widgets alone.
C18_DisplayIsOneStory ==
    []DisplayedStoryIsCurrent /\ [][FailedRefreshKeepsDisplay]_vars

ActiveTimers == {t \in 1..Len(timers) : timers[t]}

\* the state of the timers and the bell
OneTimerOneBell ==
    /\ Cardinality(ActiveTimers) <= 1
    /\ total_seconds >= 0
    /\ timer_obj # 0 =>
            \/ ActiveTimers = {timer_obj} /\ bells = 0
            \/ ActiveTimers = {} /\ bells = 1 /\ total_seconds = 0
\* the bell rings in a tick that finds total_seconds at 0
BellAfterZero ==
    (bells' # bells /\ bells' # 0) => total_seconds = 0 /\ total_seconds' = 0
\* C19: at most one interval timer is active; total_seconds is never negative;
\* the timer of a countdown is active with no bell rung, or it was stopped at
\* total_seconds = 0 with the bell rung once, and then no timer is active, so
\* that no tick follows before the next start; and the bell rings in a tick
\* that finds total_seconds at 0.
C19_OneTimerOneBell ==
    []OneTimerOneBell /\ [][BellAfterZero]_vars
C19_Witness ==
    /\ Len(timers) >= 2
    /\ ActiveTimers = {}
    /\ bells = 1

\* C20: a save worker that has ended has notified its outcome, saved or error.
C20_SaveOutcomeNotified ==
    \A w \in 1..Len(workers) :
        (workers[w].kind = "save" /\ workers[w].state \in {"finished", "cancelled"}) =>
            workers[w].outcome \in {"Saved", "Error saving note.", "API Error"}

====
